---- MODULE Spec2Model ----
(***************************************************************************)
(* WS2812Matrix (src/lib/ws2812.py): a framebuffer of packed GRB pixels,   *)
(* a coordinate map from framebuffer cells to (state machine, offset)      *)
(* slots of per-channel transfer buffers, a rasterizer that stores into    *)
(* the framebuffer, and update(), which flushes the framebuffer into the   *)
(* transfer buffers and starts one DMA transfer per channel.  The DMA      *)
(* units complete on their own, concurrently with the CPU.                 *)
(*                                                                         *)
(* A 32-bit packed pixel (g << 24) | (r << 16) | (b << 8) is held as the   *)
(* tuple of its four bytes <<g, r, b, 0>>, most significant first, since   *)
(* the word itself does not fit the model checker's integers.              *)
(***************************************************************************)
EXTENDS Integers, Sequences, FiniteSets, TLC

VARIABLES
    panel_width, panel_height, grid_width, grid_height, \* self.__panel_* / __grid_*
    zigzag, origin,                                     \* self.__zigzag / __origin
    sm_ids,          \* the state machine ids of pin_sm_pairs, in order
    brightness,      \* self.__brightness, as a number of BrightDen-ths
    fb,              \* self._fb: cell index -> packed pixel
    fb_dirty,        \* self._fb_dirty
    sms,             \* self.__sms: per appended channel, TRUE while its state machine is active
    tx_bufs,         \* self.__tx_bufs: per channel, slot -> packed pixel
    dmas,            \* self.__dmas: per channel, TRUE while its DMA transfer is active
    pix_map_sm,      \* self.__pix_map_sm  (array "B")
    pix_map_idx,     \* self.__pix_map_idx (array "H")
    pc,              \* where the CPU is: in the constructor, between calls, inside update's waits
    call             \* the last call made (kept by the rasterizer/pixel specifications only)

geomVars == <<panel_width, panel_height, grid_width, grid_height, zigzag, origin, sm_ids>>
mapVars  == <<pix_map_sm, pix_map_idx>>
vars == <<panel_width, panel_height, grid_width, grid_height, zigzag, origin, sm_ids,
          brightness, fb, fb_dirty, sms, tx_bufs, dmas, pix_map_sm, pix_map_idx, pc, call>>

----------------------------------------------------------------------------
(* Bounds of the explored instances. *)

MaxPanelW == 2
MaxPanelH == 2
MaxGridW == 3
MaxGridH == 2
MaxChannels == 2
\* the engine specification explores canvases of at most this many cells
MaxCells == 4
\* brightness is explored in steps of 1/BrightDen
BrightDen == 4
\* drawing arguments reach this far beyond the canvas on every side
Margin == 1
\* largest extent (width, height, radius, length) given to a drawing call
MaxExtent == 3
\* how many entries of Palette the engine specification draws with
NumColors == 1

Origins == {"top_left", "top_right", "bottom_left", "bottom_right"}

Min2(a, b) == IF a < b THEN a ELSE b
Max2(a, b) == IF a > b THEN a ELSE b
Abs(a) == IF a < 0 THEN -a ELSE a

----------------------------------------------------------------------------
(* Color pipeline. *)

\* A color argument is a 3-sequence [t |-> "rgb", v |-> <<r, g, b>>] or an
\* integer [t |-> "int", v |-> n].
Rgb(r, g, b) == [t |-> "rgb", v |-> <<r, g, b>>]
Hex(n) == [t |-> "int", v |-> n]
\* the fill argument left at its default, None
None == [t |-> "none", v |-> 0]

\* __normalize_color: the (r, g, b) triple, or "ValueError".
normalize_color(color) ==
    IF color.t = "rgb"
    THEN IF Len(color.v) # 3 THEN "ValueError"
         ELSE IF \A k \in 1..3 : 0 <= color.v[k] /\ color.v[k] <= 255
              THEN color.v ELSE "ValueError"
    ELSE IF 0 <= color.v /\ color.v <= 16777215
         THEN <<(color.v \div 65536) % 256, (color.v \div 256) % 256, color.v % 256>>
         ELSE "ValueError"

\* brightness setter: the clamp max(0.0, min(value, 1.0)), in BrightDen-ths
clamp_brightness(value) == Max2(0, Min2(value, BrightDen))

\* self.__btab[i] = int(i * brightness + 0.5)
btab(i) == (2 * i * brightness + BrightDen) \div (2 * BrightDen)

\* __pack_grb with the bytes in r, g, b order
pack_grb_rgb_order(r, g, b) == <<btab(r), btab(g), btab(b), 0>>

\* __pack_grb: (bt[g] << 24) | (bt[r] << 16) | (bt[b] << 8), as bytes
pack_grb(r, g, b) == <<btab(g), btab(r), btab(b), 0>>

\* the packed pixel of a valid color argument, at the current brightness
packed_of(color) ==
    LET c == normalize_color(color) IN pack_grb(c[1], c[2], c[3])

\* _PixelView.value getter: g = (p >> 24) & 0xFF, r = (p >> 16) & 0xFF,
\* b = (p >> 8) & 0xFF, returned as (r, g, b)
pixel_value(packed) == <<packed[2], packed[1], packed[3]>>

ZeroPixel == <<0, 0, 0, 0>>

----------------------------------------------------------------------------
(* Geometry and the coordinate mapper. *)

fb_width == panel_width * grid_width
fb_height == panel_height * grid_height
fb_length == fb_width * fb_height
NumChannels == Len(sm_ids)
Channels == 0..(NumChannels - 1)
Cells == 0..(fb_length - 1)

\* math.ceil((grid_width * grid_height) / len(pin_sm_pairs))
panels_per_sm == (grid_width * grid_height + NumChannels - 1) \div NumChannels
pixels_per_panel == panel_width * panel_height
\* buf_len of every channel's transfer buffer
buf_len == pixels_per_panel * panels_per_sm
Slots == 0..(buf_len - 1)

StartsWithBottom(o) == o \in {"bottom_left", "bottom_right"}
EndsWithRight(o) == o \in {"top_right", "bottom_right"}

\* __coord_to_index with every panel on state machine 0
coord_to_index_one_channel(x, y) ==
    LET panel_col == x \div panel_width
        panel_row == y \div panel_height
        panel_id == panel_row * grid_width + panel_col
        lx0 == x % panel_width
        ly0 == y % panel_height
        ly == IF StartsWithBottom(origin) THEN panel_height - 1 - ly0 ELSE ly0
        lx1 == IF EndsWithRight(origin) THEN panel_width - 1 - lx0 ELSE lx0
        lx == IF zigzag /\ (ly % 2) # 0 THEN panel_width - 1 - lx1 ELSE lx1
        local_id == panel_id % panels_per_sm
    IN  <<0, local_id * pixels_per_panel + ly * panel_width + lx>>

\* __coord_to_index for an in-canvas (x, y): <<sm_idx, buf_idx>>
coord_to_index(x, y) ==
    LET panel_col == x \div panel_width
        panel_row == y \div panel_height
        panel_id == panel_row * grid_width + panel_col
        lx0 == x % panel_width
        ly0 == y % panel_height
        ly == IF StartsWithBottom(origin) THEN panel_height - 1 - ly0 ELSE ly0
        lx1 == IF EndsWithRight(origin) THEN panel_width - 1 - lx0 ELSE lx0
        lx == IF zigzag /\ (ly % 2) # 0 THEN panel_width - 1 - lx1 ELSE lx1
        sm_idx == panel_id \div panels_per_sm
        local_id == panel_id % panels_per_sm
        buf_idx == local_id * pixels_per_panel + ly * panel_width + lx
    IN  <<sm_idx, buf_idx>>

\* a state machine table left at its initial zeros
build_pix_map_sm_all_zero == [i \in Cells |-> 0]

\* __build_pix_maps: the two tables, entry i = base + x for row y; an "B"
\* array keeps a value modulo 2^8 and an "H" array modulo 2^16
pix_map_sm_entry(x, y) == coord_to_index(x, y)[1] % 256
pix_map_idx_entry(x, y) == coord_to_index(x, y)[2] % 65536
build_pix_map_sm ==
    [i \in Cells |-> pix_map_sm_entry(i % fb_width, i \div fb_width)]
build_pix_map_idx ==
    [i \in Cells |-> pix_map_idx_entry(i % fb_width, i \div fb_width)]

----------------------------------------------------------------------------
(* Stores.  Every drawing operation is a sequence of stores into the        *)
(* framebuffer's memory, in program order.  A store is <<address, color>>:  *)
(* the cell written and the color argument whose normalized, packed value  *)
(* (__normalize_color, then __pack_grb) is written there.  A store         *)
(* through fb[...] (a bounds-checked array subscript, guarded by the code)  *)
(* and a store through __fill32 (a raw ptr32 store, not bounds-checked) are *)
(* both entries of the sequence; an address outside 0..fb_length-1 can only *)
(* come from __fill32 and lands outside the array.                          *)

\* __fill32 stopping one word early: i in 0..count-2
fill32_one_short(off, value, count) ==
    [i \in 1..(count - 1) |-> <<off + i - 1, value>>]

\* __fill32(buf, off, value, count): buf[off + i] = value for i in 0..count-1
fill32(off, value, count) ==
    [i \in 1..count |-> <<off + i - 1, value>>]

SetMax(S) == CHOOSE m \in S : \A n \in S : n <= m

\* [stores, dirty, raised]: the stores a call makes in order, whether it sets
\* _fb_dirty, and the exception it raised ("no" if it returned), having
\* stored nothing
Effect(stores, dirty) == [stores |-> stores, dirty |-> dirty, raised |-> "no"]
\* __normalize_color's ValueError, raised before any store
Raised == [stores |-> <<>>, dirty |-> FALSE, raised |-> "ValueError"]
\* __getitem__'s IndexError
RaisedIndexError == [stores |-> <<>>, dirty |-> FALSE, raised |-> "IndexError"]
NoEffect == Effect(<<>>, FALSE)

\* "0 <= x < w and 0 <= y < h"
InBounds(w, h, x, y) == 0 <= x /\ x < w /\ 0 <= y /\ y < h

----------------------------------------------------------------------------
(* Pixel access and fill, on a canvas of w x h cells. *)

\* _set_pixel without line 109, the dirty flag
set_pixel_clean(w, h, x, y, color) ==
    IF normalize_color(color) = "ValueError" THEN Raised
    ELSE IF InBounds(w, h, x, y)
         THEN Effect(<< <<y * w + x, color>> >>, FALSE)
         ELSE NoEffect

\* _set_pixel(x, y, color)
set_pixel(w, h, x, y, color) ==
    IF normalize_color(color) = "ValueError" THEN Raised
    ELSE IF InBounds(w, h, x, y)
         THEN Effect(<< <<y * w + x, color>> >>, TRUE)
         ELSE NoEffect

\* m[x, y].value = color without the bounds check of __getitem__
pixel_write_no_bounds_check(w, h, x, y, color) == set_pixel(w, h, x, y, color)

\* m[x, y].value = color: __getitem__ raises IndexError outside the canvas
pixel_write(w, h, x, y, color) ==
    IF ~InBounds(w, h, x, y) THEN RaisedIndexError
    ELSE set_pixel(w, h, x, y, color)

\* fill(color)
fill(w, h, color) ==
    IF normalize_color(color) = "ValueError" THEN Raised
    ELSE Effect(fill32(0, color, w * h), TRUE)

----------------------------------------------------------------------------
(* Rasterizer, on a canvas of w x h (dw x dh) cells. *)

\* the concatenation of the sequences f[a], f[a+1], ..., f[b]
RECURSIVE CatRange(_, _, _)
CatRange(f, a, b) == IF a > b THEN <<>> ELSE f[a] \o CatRange(f, a + 1, b)

\* a guarded store: "if 0 <= x < w and 0 <= y < h: fb[y * w + x] = packed"
put(w, h, x, y, color) ==
    IF InBounds(w, h, x, y) THEN << <<y * w + x, color>> >> ELSE <<>>

\* draw_line, lines 211-222: the Bresenham loop at (x, y) with error err;
\* l holds the call's w, h, x1, y1, dx, dy, sx, sy and color
\* lines 216-222 without line 218, "err += dy"
line_next_no_err_dy(x, y, err, l) ==
    LET e2 == 2 * err
        stepx == e2 >= l.dy
        stepy == e2 <= l.dx
        err1 == err
    IN  [x |-> IF stepx THEN x + l.sx ELSE x,
         y |-> IF stepy THEN y + l.sy ELSE y,
         err |-> IF stepy THEN err1 + l.dx ELSE err1]

\* lines 216-222: the point and the error after one iteration that did not
\* break
line_next(x, y, err, l) ==
    LET e2 == 2 * err
        stepx == e2 >= l.dy
        stepy == e2 <= l.dx
        err1 == IF stepx THEN err + l.dy ELSE err
    IN  [x |-> IF stepx THEN x + l.sx ELSE x,
         y |-> IF stepy THEN y + l.sy ELSE y,
         err |-> IF stepy THEN err1 + l.dx ELSE err1]

RECURSIVE line_loop(_, _, _, _)
line_loop(x, y, err, l) ==
    LET here == put(l.w, l.h, x, y, l.color)
    IN  IF x = l.x1 /\ y = l.y1 THEN here
        ELSE LET n == line_next(x, y, err, l)
             IN  here \o line_loop(n.x, n.y, n.err, l)

\* draw_line(x0, y0, x1, y1, color)
draw_line(w, h, x0, y0, x1, y1, color) ==
    IF normalize_color(color) = "ValueError" THEN Raised
    ELSE IF y0 = y1
    THEN \* lines 175-187
         IF 0 <= y0 /\ y0 < h
         THEN LET xa == Max2(0, Min2(x0, x1))
                  xb == Min2(w - 1, Max2(x0, x1))
              IN  IF xa <= xb
                  THEN Effect(fill32(y0 * w + xa, color, xb - xa + 1), TRUE)
                  ELSE NoEffect
         ELSE NoEffect
    ELSE IF x0 = x1
    THEN \* lines 189-203
         IF ~(0 <= x0 /\ x0 < w) THEN NoEffect
         ELSE LET ya == Max2(0, Min2(y0, y1))
                  yb == Min2(h - 1, Max2(y0, y1))
              IN  IF ya > yb THEN NoEffect
                  ELSE Effect(fill32(ya * w + x0, color, yb - ya + 1), TRUE)
    ELSE \* lines 205-223
         LET l == [w |-> w, h |-> h, x1 |-> x1, y1 |-> y1,
                   dx |-> Abs(x1 - x0), sx |-> IF x0 < x1 THEN 1 ELSE -1,
                   dy |-> -Abs(y1 - y0), sy |-> IF y0 < y1 THEN 1 ELSE -1,
                   color |-> color]
         IN  Effect(line_loop(x0, y0, l.dx + l.dy, l), TRUE)

\* int(round(math.cos(rad) * half)) and int(round(math.sin(rad) * half)) for
\* an angle that is an odd multiple of 45 degrees: |cos| = |sin| = 0.70710678
round_diag(half) == (2 * half * 7071 + 10000) \div 20000
cos_sign(angle) == IF angle \in {45, 315} THEN 1 ELSE -1
sin_sign(angle) == IF angle \in {45, 135} THEN 1 ELSE -1

\* draw_line_polar(cx, cy, length, angle_deg, color), angle_deg a multiple of 45
draw_line_polar(w, h, cx, cy, length, angle_deg, color) ==
    LET half == length \div 2   \* length >> 1
        angle == angle_deg % 360
    IN  IF half <= 0 THEN NoEffect
        ELSE IF normalize_color(color) = "ValueError" THEN Raised
        ELSE IF angle % 90 = 0
             THEN IF angle = 0 \/ angle = 180
                  THEN \* lines 239-255: a slice assignment of span cells
                       IF ~(0 <= cy /\ cy < h) THEN NoEffect
                       ELSE LET xa == Max2(0, cx - half)
                                xb == Min2(w - 1, cx + half)
                            IN  IF xa <= xb
                                THEN Effect([i \in 1..(xb - xa + 1) |->
                                                <<cy * w + xa + i - 1, color>>], TRUE)
                                ELSE NoEffect
                  ELSE \* lines 257-272: one store per row
                       IF ~(0 <= cx /\ cx < w) THEN NoEffect
                       ELSE LET ya == Max2(0, cy - half)
                                yb == Min2(h - 1, cy + half)
                            IN  IF ya <= yb
                                THEN Effect([i \in 1..(yb - ya + 1) |->
                                                <<(ya + i - 1) * w + cx, color>>], TRUE)
                                ELSE NoEffect
             ELSE \* lines 274-281
                  LET dxh == cos_sign(angle) * round_diag(half)
                      dyh == sin_sign(angle) * round_diag(half)
                      x0 == cx - dxh
                      y0 == cy - dyh
                      x1 == cx + dxh
                      y1 == cy + dyh
                  IN  IF (x0 < 0 /\ x1 < 0) \/ (x0 >= w /\ x1 >= w) THEN NoEffect
                      ELSE IF (y0 < 0 /\ y1 < 0) \/ (y0 >= h /\ y1 >= h) THEN NoEffect
                      ELSE draw_line(w, h, x0, y0, x1, y1, color)

\* draw_rect's hspan filling xb - xa words, the right end left out
hspan_open_right(dw, dh, y_row, xa, xb, color) ==
    IF ~(0 <= y_row /\ y_row < dh) THEN <<>>
    ELSE IF xb < 0 \/ xa >= dw THEN <<>>
    ELSE LET a == IF xa < 0 THEN 0 ELSE xa
             b == IF xb >= dw THEN dw - 1 ELSE xb
         IN  IF a > b THEN <<>>
             ELSE fill32(y_row * dw + a, color, b - a)

\* draw_rect's hspan(y_row, xa, xb, packed)
hspan(dw, dh, y_row, xa, xb, color) ==
    IF ~(0 <= y_row /\ y_row < dh) THEN <<>>
    ELSE IF xb < 0 \/ xa >= dw THEN <<>>
    ELSE LET a == IF xa < 0 THEN 0 ELSE xa
             b == IF xb >= dw THEN dw - 1 ELSE xb
         IN  IF a > b THEN <<>>
             ELSE fill32(y_row * dw + a, color, b - a + 1)

\* draw_rect(x, y, w, h, outline, fill); fill is a color or None
draw_rect(dw, dh, x, y, w, h, outline, fillc) ==
    IF w <= 0 \/ h <= 0 THEN NoEffect
    ELSE IF normalize_color(outline) = "ValueError" THEN Raised
    ELSE IF fillc.t # "none" /\ normalize_color(fillc) = "ValueError" THEN Raised
    ELSE LET x1 == x
             y1 == y
             x2 == x + w - 1
             y2 == y + h - 1
             top == hspan(dw, dh, y1, x1, x2, outline)
             bottom == IF y2 # y1 THEN hspan(dw, dh, y2, x1, x2, outline) ELSE <<>>
             \* lines 311-318: for py in range(max(y1, 0) + 1, min(y2, dh - 1))
             sides == IF w >= 2
                      THEN CatRange([py \in (Max2(y1, 0) + 1)..(Min2(y2, dh - 1) - 1) |->
                                (IF 0 <= x1 /\ x1 < dw THEN << <<py * dw + x1, outline>> >> ELSE <<>>)
                                \o (IF 0 <= x2 /\ x2 < dw /\ x2 # x1
                                    THEN << <<py * dw + x2, outline>> >> ELSE <<>>)],
                             Max2(y1, 0) + 1, Min2(y2, dh - 1) - 1)
                      ELSE <<>>
             \* lines 320-324: for py in range(max(y1 + 1, 0), min(y2, dh - 1))
             inner == IF fillc.t # "none" /\ w > 2 /\ h > 2
                      THEN CatRange([py \in Max2(y1 + 1, 0)..(Min2(y2, dh - 1) - 1) |->
                                hspan(dw, dh, py, x1 + 1, x2 - 1, fillc)],
                             Max2(y1 + 1, 0), Min2(y2, dh - 1) - 1)
                      ELSE <<>>
         IN  Effect(top \o bottom \o sides \o inner, TRUE)

\* draw_rect_polar(cx, cy, w, h, angle_deg, outline, fill) for angle_deg a
\* multiple of 90 (lines 330-334); w >> 1 is the floor of w / 2
draw_rect_polar(dw, dh, cx, cy, w, h, angle_deg, outline, fillc) ==
    IF w <= 0 \/ h <= 0 THEN NoEffect
    ELSE draw_rect(dw, dh, cx - (w \div 2), cy - (h \div 2), w, h, outline, fillc)

\* the body of draw_ellipse's loops without pset(cx - x, cy + y)
ellipse_row_three_psets(e, x, y) ==
    LET xa == IF e.cx - x < 0 THEN 0 ELSE e.cx - x
        xb == IF e.cx + x >= e.dw THEN e.dw - 1 ELSE e.cx + x
        spans == IF e.fill.t # "none" /\ xa <= xb
                 THEN fill32((e.cy + y) * e.dw + xa, e.fill, xb - xa + 1)
                      \o fill32((e.cy - y) * e.dw + xa, e.fill, xb - xa + 1)
                 ELSE <<>>
    IN  spans \o put(e.dw, e.dh, e.cx + x, e.cy + y, e.outline)
              \o put(e.dw, e.dh, e.cx + x, e.cy - y, e.outline)
              \o put(e.dw, e.dh, e.cx - x, e.cy - y, e.outline)

\* the body shared by draw_ellipse's two loops (lines 436-446 and 458-468)
\* at the loop variables (x, y): the two fill runs, then the four pset calls;
\* e holds dw, dh, cx, cy, rx2, ry2, outline and fill of the call
ellipse_row(e, x, y) ==
    LET xa == IF e.cx - x < 0 THEN 0 ELSE e.cx - x
        xb == IF e.cx + x >= e.dw THEN e.dw - 1 ELSE e.cx + x
        spans == IF e.fill.t # "none" /\ xa <= xb
                 THEN fill32((e.cy + y) * e.dw + xa, e.fill, xb - xa + 1)
                      \o fill32((e.cy - y) * e.dw + xa, e.fill, xb - xa + 1)
                 ELSE <<>>
    IN  spans \o put(e.dw, e.dh, e.cx + x, e.cy + y, e.outline)
              \o put(e.dw, e.dh, e.cx - x, e.cy + y, e.outline)
              \o put(e.dw, e.dh, e.cx + x, e.cy - y, e.outline)
              \o put(e.dw, e.dh, e.cx - x, e.cy - y, e.outline)

\* the second loop, lines 457-474; d2x4 is 4 * d2 (d2 is a multiple of 1/4)
RECURSIVE ellipse_region2(_, _, _, _)
ellipse_region2(e, x, y, d2x4) ==
    IF y >= 0
    THEN ellipse_row(e, x, y)
         \o (IF d2x4 > 0
             THEN ellipse_region2(e, x, y - 1, d2x4 + 4 * (e.rx2 - 2 * e.rx2 * (y - 1)))
             ELSE ellipse_region2(e, x + 1, y - 1,
                     d2x4 + 4 * (2 * e.ry2 * (x + 1) + e.rx2 - 2 * e.rx2 * (y - 1))))
    ELSE <<>>

\* the first loop, lines 435-454, then line 456 and the second loop
RECURSIVE ellipse_region1(_, _, _, _, _, _)
ellipse_region1(e, x, y, dx, dy, d1) ==
    IF dx < dy
    THEN ellipse_row(e, x, y)
         \o (LET dxn == dx + 2 * e.ry2
             IN  IF d1 < 0
                 THEN ellipse_region1(e, x + 1, y, dxn, dy, d1 + dxn + e.ry2)
                 ELSE ellipse_region1(e, x + 1, y - 1, dxn, dy - 2 * e.rx2,
                                      d1 + dxn - (dy - 2 * e.rx2) + e.ry2))
    ELSE ellipse_region2(e, x, y,
            e.ry2 * (2 * x + 1) * (2 * x + 1) + 4 * e.rx2 * (y - 1) * (y - 1)
            - 4 * e.rx2 * e.ry2)

\* draw_ellipse(cx, cy, rx, ry, outline, fill, angle_deg = 0.0)
draw_ellipse(dw, dh, cx, cy, rx, ry, outline, fillc) ==
    IF rx <= 0 \/ ry <= 0 THEN NoEffect
    ELSE IF normalize_color(outline) = "ValueError" THEN Raised
    ELSE IF fillc.t # "none" /\ normalize_color(fillc) = "ValueError" THEN Raised
    ELSE LET e == [dw |-> dw, dh |-> dh, cx |-> cx, cy |-> cy,
                   rx2 |-> rx * rx, ry2 |-> ry * ry,
                   outline |-> outline, fill |-> fillc]
         IN  Effect(ellipse_region1(e, 0, ry, 0, 2 * e.rx2 * ry,
                                    e.ry2 - e.rx2 * ry + (e.rx2 \div 4)), TRUE)

\* draw_circle(cx, cy, r, color, fill)
draw_circle(dw, dh, cx, cy, r, color, fillc) ==
    draw_ellipse(dw, dh, cx, cy, r, r, color, fillc)

----------------------------------------------------------------------------
(* Outcomes.  What a call's stores leave behind: for every cell of the     *)
(* canvas that was stored to, the color stored last; whether a store       *)
(* landed outside the array; whether _fb_dirty was set; whether it raised. *)

Outcome(w, h, e) ==
    LET inside == {e.stores[k][1] : k \in 1..Len(e.stores)} \cap 0..(w * h - 1)
    IN  [written |-> [a \in inside |->
                        e.stores[SetMax({k \in 1..Len(e.stores) : e.stores[k][1] = a})][2]],
         overrun |-> \E k \in 1..Len(e.stores) : e.stores[k][1] \notin 0..(w * h - 1),
         dirty |-> e.dirty,
         raised |-> e.raised]

----------------------------------------------------------------------------
(* Construction. *)

\* the object as __init__ leaves it when every channel came up
Constructed(pw, ph, gw, gh, zz, org, ids, br) ==
    /\ panel_width = pw /\ panel_height = ph
    /\ grid_width = gw /\ grid_height = gh
    /\ zigzag = zz /\ origin = org
    /\ sm_ids = ids
    /\ brightness = clamp_brightness(br)
    /\ fb = [i \in 0..(pw * ph * gw * gh - 1) |-> ZeroPixel]
    /\ fb_dirty = FALSE
    /\ sms = [c \in 0..(Len(ids) - 1) |-> TRUE]
    /\ tx_bufs = [c \in 0..(Len(ids) - 1) |->
                    [k \in 0..(pw * ph * ((gw * gh + Len(ids) - 1) \div Len(ids)) - 1) |-> ZeroPixel]]
    /\ dmas = [c \in 0..(Len(ids) - 1) |-> FALSE]
    /\ pix_map_sm = build_pix_map_sm
    /\ pix_map_idx = build_pix_map_idx
    /\ pc = "main"

\* pin_sm_pairs of n channels using state machines 0..n-1
FirstIds(n) == [k \in 1..n |-> k - 1]

----------------------------------------------------------------------------
(* Transmission engine. *)

\* a poll of the first channel only
any_dma_active_first_only == dmas[0]

\* any(dma.active() for dma in self.__dmas).  The generator polls the
\* channels one after another; a channel only goes from active to idle
\* while the CPU is polling, so the scan's answer is the answer of one
\* atomic read (at the first active poll, or at the end of the scan).
any_dma_active == \E c \in Channels : dmas[c]

\* __flush_fb_to_txb storing every cell to channel 0's buffer
flush_fb_to_txb_no_sm(bufs) ==
    [c \in Channels |-> [k \in Slots |->
        LET hits == {i \in Cells : pix_map_idx[i] = k /\ 0 = c}
        IN  IF hits = {} THEN bufs[c][k] ELSE fb[SetMax(hits)]]]

\* __flush_fb_to_txb: bufs[map_sm[i]][map_idx[i]] = fb[i] for i = 0..length-1
flush_fb_to_txb(bufs) ==
    [c \in Channels |-> [k \in Slots |->
        LET hits == {i \in Cells : pix_map_sm[i] = c /\ pix_map_idx[i] = k}
        IN  IF hits = {} THEN bufs[c][k] ELSE fb[SetMax(hits)]]]

\* lines 137-144 without line 139, the reset of the dirty flag
flush_and_trigger_keep_dirty ==
    /\ tx_bufs' = IF fb_dirty THEN flush_fb_to_txb(tx_bufs) ELSE tx_bufs
    /\ fb_dirty' = fb_dirty
    /\ dmas' = [c \in Channels |-> IF ~dmas[c] THEN TRUE ELSE dmas[c]]

\* update, lines 137-144: flush when dirty, then start every idle channel
flush_and_trigger ==
    /\ tx_bufs' = IF fb_dirty THEN flush_fb_to_txb(tx_bufs) ELSE tx_bufs
    /\ fb_dirty' = FALSE
    /\ dmas' = [c \in Channels |-> IF ~dmas[c] THEN TRUE ELSE dmas[c]]

\* update(wait=False) without the early return of lines 131-132
UpdateNoWait_no_busy_return ==
    /\ pc = "main"
    /\ flush_and_trigger
    /\ UNCHANGED <<geomVars, mapVars, brightness, fb, sms, pc, call>>

\* update(wait=False) without lines 137-139, the flush
UpdateNoWait_no_flush ==
    /\ pc = "main"
    /\ IF any_dma_active
       THEN UNCHANGED <<tx_bufs, fb_dirty, dmas>>
       ELSE /\ dmas' = [c \in Channels |-> TRUE]
            /\ UNCHANGED <<tx_bufs, fb_dirty>>
    /\ UNCHANGED <<geomVars, mapVars, brightness, fb, sms, pc, call>>

\* update(wait=False), the whole call
UpdateNoWait ==
    /\ pc = "main"
    /\ IF any_dma_active
       THEN UNCHANGED <<tx_bufs, fb_dirty, dmas>>
       ELSE flush_and_trigger
    /\ UNCHANGED <<geomVars, mapVars, brightness, fb, sms, pc, call>>

\* update(wait=True), up to its first wait: with a channel busy it spins at
\* line 134, otherwise it flushes, triggers and spins at line 147
UpdateWaitCall ==
    /\ pc = "main"
    /\ IF any_dma_active
       THEN pc' = "wait_idle" /\ UNCHANGED <<tx_bufs, fb_dirty, dmas>>
       ELSE pc' = "wait_done" /\ flush_and_trigger
    /\ UNCHANGED <<geomVars, mapVars, brightness, fb, sms, call>>

\* the loop of line 134 ends when no channel is active; lines 137-144 follow
UpdateWaitIdle ==
    /\ pc = "wait_idle"
    /\ ~any_dma_active
    /\ flush_and_trigger
    /\ pc' = "wait_done"
    /\ UNCHANGED <<geomVars, mapVars, brightness, fb, sms, call>>

\* update(wait=True) returning without the loop of line 147
UpdateWaitReturn_no_wait ==
    /\ pc = "wait_done"
    /\ pc' = "main"
    /\ UNCHANGED <<geomVars, mapVars, brightness, fb, fb_dirty, sms, tx_bufs, dmas, call>>

\* the loop of line 147 ends when no channel is active; update returns
UpdateWaitReturn ==
    /\ pc = "wait_done"
    /\ ~any_dma_active
    /\ pc' = "main"
    /\ UNCHANGED <<geomVars, mapVars, brightness, fb, fb_dirty, sms, tx_bufs, dmas, call>>

\* a channel's DMA transfer reaches its count and goes idle, on its own
DmaComplete(c) ==
    /\ dmas[c]
    /\ dmas' = [dmas EXCEPT ![c] = FALSE]
    /\ UNCHANGED <<geomVars, mapVars, brightness, fb, fb_dirty, sms, tx_bufs, pc, call>>

----------------------------------------------------------------------------
(* Calls.  The arguments of a call are drawn from small sets around the    *)
(* canvas.                                                                 *)

XArgs(w) == (0 - Margin)..(w - 1 + Margin)
YArgs(h) == (0 - Margin)..(h - 1 + Margin)
Extents == 0..MaxExtent
Lengths == 0..(2 * MaxExtent)
Angles == {0, 45, 90, 135, 180, 225, 270, 315}
RightAngles == {0, 90, 180, 270}

\* 0xFF0000, (0, 255, 0), 0x0000FF, (255, 255, 255)
Palette == <<Hex(16711680), Rgb(0, 255, 0), Hex(255), Rgb(255, 255, 255)>>
OutlineColors == {Palette[k] : k \in 1..NumColors}
FillColors == {None} \cup {Palette[k + 1] : k \in 1..NumColors}

\* The CPU makes a drawing call between two calls of update: the stores
\* reach the framebuffer, packed at the current brightness, and the dirty
\* flag is set as the call says.  A store outside the array corrupts memory
\* the model does not hold: the behaviour from there on is undefined, and
\* the CPU is taken to "fault", where it makes no further call.
Draw(o) ==
    /\ pc = "main"
    /\ fb' = [i \in Cells |-> IF i \in DOMAIN o.written
                              THEN packed_of(o.written[i]) ELSE fb[i]]
    /\ fb_dirty' = (fb_dirty \/ o.dirty)
    /\ pc' = IF o.overrun THEN "fault" ELSE "main"
    /\ UNCHANGED <<geomVars, mapVars, brightness, sms, tx_bufs, dmas>>

\* the outcomes of every call of an operation on a w x h canvas; the engine
\* specification has canvases of at most MaxCells cells
CanvasW == 1..(MaxPanelW * MaxGridW)
CanvasH == 1..(MaxPanelH * MaxGridH)

SetPixelOutcomes ==
    [w \in CanvasW, h \in CanvasH |->
        IF w * h > MaxCells THEN {}
        ELSE
            {Outcome(w, h, set_pixel(w, h, x, y, c)) :
                x \in XArgs(w), y \in YArgs(h), c \in OutlineColors}]

FillOutcomes ==
    [w \in CanvasW, h \in CanvasH |->
        IF w * h > MaxCells THEN {}
        ELSE
            {Outcome(w, h, fill(w, h, c)) : c \in OutlineColors \cup {Hex(0)}}]

LineOutcomes ==
    [w \in CanvasW, h \in CanvasH |->
        IF w * h > MaxCells THEN {}
        ELSE
            {Outcome(w, h, draw_line(w, h, x0, y0, x1, y1, c)) :
                x0 \in XArgs(w), y0 \in YArgs(h), x1 \in XArgs(w), y1 \in YArgs(h),
                c \in OutlineColors}]

LinePolarOutcomes ==
    [w \in CanvasW, h \in CanvasH |->
        IF w * h > MaxCells THEN {}
        ELSE
            {Outcome(w, h, draw_line_polar(w, h, cx, cy, len, a, c)) :
                cx \in XArgs(w), cy \in YArgs(h), len \in Lengths, a \in Angles,
                c \in OutlineColors}]

RectOutcomes ==
    [w \in CanvasW, h \in CanvasH |->
        IF w * h > MaxCells THEN {}
        ELSE
            {Outcome(w, h, draw_rect(w, h, x, y, rw, rh, c, f)) :
                x \in XArgs(w), y \in YArgs(h), rw \in Extents, rh \in Extents,
                c \in OutlineColors, f \in FillColors}]

RectPolarOutcomes ==
    [w \in CanvasW, h \in CanvasH |->
        IF w * h > MaxCells THEN {}
        ELSE
            {Outcome(w, h, draw_rect_polar(w, h, cx, cy, rw, rh, a, c, f)) :
                cx \in XArgs(w), cy \in YArgs(h), rw \in Extents, rh \in Extents,
                a \in RightAngles, c \in OutlineColors, f \in FillColors}]

EllipseOutcomes ==
    [w \in CanvasW, h \in CanvasH |->
        IF w * h > MaxCells THEN {}
        ELSE
            {Outcome(w, h, draw_ellipse(w, h, cx, cy, rx, ry, c, f)) :
                cx \in XArgs(w), cy \in YArgs(h), rx \in Extents, ry \in Extents,
                c \in OutlineColors, f \in FillColors}]

CircleOutcomes ==
    [w \in CanvasW, h \in CanvasH |->
        IF w * h > MaxCells THEN {}
        ELSE
            {Outcome(w, h, draw_circle(w, h, cx, cy, r, c, f)) :
                cx \in XArgs(w), cy \in YArgs(h), r \in Extents,
                c \in OutlineColors, f \in FillColors}]

\* the calls of the engine specification: any call of the operation
SetPixel == pc = "main" /\ \E o \in SetPixelOutcomes[fb_width, fb_height] : Draw(o) /\ UNCHANGED call
Fill == pc = "main" /\ \E o \in FillOutcomes[fb_width, fb_height] : Draw(o) /\ UNCHANGED call
DrawLine == pc = "main" /\ \E o \in LineOutcomes[fb_width, fb_height] : Draw(o) /\ UNCHANGED call
DrawLinePolar == pc = "main" /\ \E o \in LinePolarOutcomes[fb_width, fb_height] : Draw(o) /\ UNCHANGED call
DrawRect == pc = "main" /\ \E o \in RectOutcomes[fb_width, fb_height] : Draw(o) /\ UNCHANGED call
DrawRectPolar == pc = "main" /\ \E o \in RectPolarOutcomes[fb_width, fb_height] : Draw(o) /\ UNCHANGED call
DrawEllipse == pc = "main" /\ \E o \in EllipseOutcomes[fb_width, fb_height] : Draw(o) /\ UNCHANGED call
DrawCircle == pc = "main" /\ \E o \in CircleOutcomes[fb_width, fb_height] : Draw(o) /\ UNCHANGED call

----------------------------------------------------------------------------
(* Spec: the transmission engine.  A constructed matrix; the CPU draws and *)
(* calls update while the DMA units complete on their own.                 *)

\* A flip of a panel one cell wide (or high) maps it to itself: such a
\* geometry is explored once, with the flip off.
FlipsMatter(pw, ph, zz, org) ==
    /\ zz => (pw >= 2 /\ ph >= 2)
    /\ EndsWithRight(org) => pw >= 2
    /\ StartsWithBottom(org) => ph >= 2

Init ==
    \E pw \in 1..MaxPanelW, ph \in 1..MaxPanelH, gw \in 1..MaxGridW, gh \in 1..MaxGridH,
       zz \in BOOLEAN, org \in Origins, n \in 1..MaxChannels :
        /\ pw * ph * gw * gh <= MaxCells
        /\ FlipsMatter(pw, ph, zz, org)
        /\ Constructed(pw, ph, gw, gh, zz, org, FirstIds(n), BrightDen)
        /\ call = <<>>

Next ==
    \/ UpdateNoWait
    \/ UpdateWaitCall
    \/ UpdateWaitIdle
    \/ UpdateWaitReturn
    \/ \E c \in Channels : DmaComplete(c)
    \/ SetPixel
    \/ Fill
    \/ DrawLine
    \/ DrawLinePolar
    \/ DrawRect
    \/ DrawRectPolar
    \/ DrawEllipse
    \/ DrawCircle

Spec == Init /\ [][Next]_vars

----------------------------------------------------------------------------
(* SpecDraw: the rasterizer.  One drawing call, with its arguments kept in *)
(* call, on a single-panel canvas that is blank or was filled before.      *)

DrawMaxW == 4
DrawMaxH == 4

DrawCall(c, e) ==
    /\ \E o \in {Outcome(fb_width, fb_height, e)} : Draw(o)
    /\ call' = c

FillCall ==
    /\ call = <<"init">>
    /\ \E c \in {Palette[3]} :
            DrawCall(<<"fill", c>>, fill(fb_width, fb_height, c))

SetPixelCall ==
    /\ call[1] \in {"init", "fill"}
    /\ \E x \in XArgs(fb_width), y \in YArgs(fb_height), c \in OutlineColors :
            DrawCall(<<"set_pixel", x, y, c>>, set_pixel(fb_width, fb_height, x, y, c))

DrawLineCall ==
    /\ call[1] \in {"init", "fill"}
    /\ \E x0 \in XArgs(fb_width), y0 \in YArgs(fb_height),
           x1 \in XArgs(fb_width), y1 \in YArgs(fb_height), c \in OutlineColors :
            DrawCall(<<"draw_line", x0, y0, x1, y1, c>>,
                     draw_line(fb_width, fb_height, x0, y0, x1, y1, c))

DrawLinePolarCall ==
    /\ call[1] \in {"init", "fill"}
    /\ \E cx \in XArgs(fb_width), cy \in YArgs(fb_height), len \in Lengths, a \in Angles,
           c \in OutlineColors :
            DrawCall(<<"draw_line_polar", cx, cy, len, a, c>>,
                     draw_line_polar(fb_width, fb_height, cx, cy, len, a, c))

DrawRectCall ==
    /\ call[1] \in {"init", "fill"}
    /\ \E x \in XArgs(fb_width), y \in YArgs(fb_height), w \in Extents, h \in Extents,
           c \in OutlineColors, f \in FillColors :
            DrawCall(<<"draw_rect", x, y, w, h, c, f>>,
                     draw_rect(fb_width, fb_height, x, y, w, h, c, f))

DrawRectPolarCall ==
    /\ call[1] \in {"init", "fill"}
    /\ \E cx \in XArgs(fb_width), cy \in YArgs(fb_height), w \in Extents, h \in Extents,
           a \in RightAngles, c \in OutlineColors, f \in FillColors :
            DrawCall(<<"draw_rect_polar", cx, cy, w, h, a, c, f>>,
                     draw_rect_polar(fb_width, fb_height, cx, cy, w, h, a, c, f))

DrawEllipseCall ==
    /\ call[1] \in {"init", "fill"}
    /\ \E cx \in XArgs(fb_width), cy \in YArgs(fb_height), rx \in Extents, ry \in Extents,
           c \in OutlineColors, f \in FillColors :
            DrawCall(<<"draw_ellipse", cx, cy, rx, ry, c, f>>,
                     draw_ellipse(fb_width, fb_height, cx, cy, rx, ry, c, f))

DrawCircleCall ==
    /\ call[1] \in {"init", "fill"}
    /\ \E cx \in XArgs(fb_width), cy \in YArgs(fb_height), r \in Extents,
           c \in OutlineColors, f \in FillColors :
            DrawCall(<<"draw_circle", cx, cy, r, c, f>>,
                     draw_circle(fb_width, fb_height, cx, cy, r, c, f))

DrawInit ==
    \E w \in 1..DrawMaxW, h \in 1..DrawMaxH :
        /\ Constructed(w, h, 1, 1, FALSE, "top_left", FirstIds(1), BrightDen)
        /\ call = <<"init">>

DrawNext ==
    \/ FillCall
    \/ SetPixelCall
    \/ DrawLineCall
    \/ DrawLinePolarCall
    \/ DrawRectCall
    \/ DrawRectPolarCall
    \/ DrawEllipseCall
    \/ DrawCircleCall

SpecDraw == DrawInit /\ [][DrawNext]_vars

----------------------------------------------------------------------------
(* SpecPixel: pixel access.  The brightness is set, the canvas is filled,  *)
(* and one pixel is written through m[x, y].value, with colors of both     *)
(* forms.                                                                  *)

ByteSamples == {0, 127, 255}
\* 0x000000, 0x0000FF, 0x00FF00, 0xFF0000, 0x123456, 0xFFFFFF
HexSamples == {0, 255, 65280, 16711680, 1193046, 16777215}
PixelColors ==
    {Rgb(r, g, b) : r \in ByteSamples, g \in ByteSamples, b \in ByteSamples}
        \cup {Hex(n) : n \in HexSamples}

\* m.brightness = value
SetBrightness ==
    /\ pc = "main"
    /\ call[1] # "pixel_write"
    /\ \E v \in (0 - 1)..(BrightDen + 1) :
        /\ brightness' = clamp_brightness(v)
        /\ call' = <<"brightness", v>>
    /\ UNCHANGED <<geomVars, mapVars, fb, fb_dirty, sms, tx_bufs, dmas, pc>>

PixelFill ==
    /\ call[1] # "pixel_write"
    /\ \E c \in {Palette[3], Palette[4]} :
        /\ \E o \in {Outcome(fb_width, fb_height, fill(fb_width, fb_height, c))} : Draw(o)
        /\ call' = <<"fill", c>>

\* m[x, y].value = color
PixelWrite ==
    /\ call[1] # "pixel_write"
    /\ \E x \in XArgs(fb_width), y \in YArgs(fb_height), c \in PixelColors :
        /\ \E o \in {Outcome(fb_width, fb_height, pixel_write(fb_width, fb_height, x, y, c))} :
            Draw(o)
        /\ call' = <<"pixel_write", x, y, c>>

PixelInit ==
    \E w \in 1..MaxPanelW, h \in 1..MaxPanelH, br \in 0..BrightDen :
        /\ Constructed(w, h, 1, 1, FALSE, "top_left", FirstIds(1), br)
        /\ call = <<"init">>

PixelNext ==
    \/ SetBrightness
    \/ PixelFill
    \/ PixelWrite

SpecPixel == PixelInit /\ [][PixelNext]_vars

----------------------------------------------------------------------------
(* SpecPoll: a caller that draws and polls update(wait=False).  The caller *)
(* keeps calling update, and every transfer that was started completes.    *)

PollNext ==
    \/ SetPixel
    \/ Fill
    \/ UpdateNoWait
    \/ \E c \in Channels : DmaComplete(c)

\* the main loop calls update(False) again and again; a started DMA
\* transfer reaches its count
PollFairness ==
    /\ WF_vars(UpdateNoWait)
    /\ \A c \in 0..(MaxChannels - 1) : WF_vars(c \in Channels /\ DmaComplete(c))

SpecPoll == Init /\ [][PollNext]_vars /\ PollFairness

----------------------------------------------------------------------------
(* SpecWait: a caller that draws and calls update in both forms.  The CPU  *)
(* keeps polling inside update(True)'s loops; whether a transfer unit ever *)
(* reports completion is up to the hardware.                               *)

WaitNext ==
    \/ SetPixel
    \/ Fill
    \/ UpdateNoWait
    \/ UpdateWaitCall
    \/ UpdateWaitIdle
    \/ UpdateWaitReturn
    \/ \E c \in Channels : DmaComplete(c)

\* the loops of lines 134 and 147 test dma.active() again and again
WaitFairness ==
    /\ WF_vars(UpdateWaitIdle)
    /\ WF_vars(UpdateWaitReturn)

SpecWait == Init /\ [][WaitNext]_vars /\ WaitFairness

----------------------------------------------------------------------------
(* SpecMap: the pixel maps of matrices of any size.  The constructor puts  *)
(* no limit on the geometry, so besides the small panels there is one of   *)
(* BigPanelW x BigPanelH pixels, more than 2^16; the framebuffer of such a *)
(* matrix is not held, and __build_pix_maps is followed for two of its     *)
(* pixels: call keeps them, the tables hold their two entries.             *)

BigPanelW == 256
BigPanelH == 257
MapPanelWs == (1..MaxPanelW) \cup {BigPanelW}
MapPanelHs == (1..MaxPanelH) \cup {BigPanelH}

\* the first two and the last two columns and rows of the canvas
MapXs == {0, 1, fb_width - 2, fb_width - 1} \cap 0..(fb_width - 1)
MapYs == {0, 1, fb_height - 2, fb_height - 1} \cap 0..(fb_height - 1)

\* lines 547-553 for the pixels (x1, y1) and (x2, y2)
BuildMapEntries ==
    /\ call = <<"init">>
    /\ \E x1 \in MapXs, y1 \in MapYs, x2 \in MapXs, y2 \in MapYs :
        /\ y1 * fb_width + x1 <= y2 * fb_width + x2
        /\ pix_map_sm' = [i \in {y1 * fb_width + x1, y2 * fb_width + x2} |->
                            pix_map_sm_entry(i % fb_width, i \div fb_width)]
        /\ pix_map_idx' = [i \in {y1 * fb_width + x1, y2 * fb_width + x2} |->
                            pix_map_idx_entry(i % fb_width, i \div fb_width)]
        /\ call' = <<"map", x1, y1, x2, y2>>
    /\ UNCHANGED <<geomVars, brightness, fb, fb_dirty, sms, tx_bufs, dmas, pc>>

MapInit ==
    \E pw \in MapPanelWs, ph \in MapPanelHs, gw \in 1..MaxGridW, gh \in 1..MaxGridH,
       zz \in BOOLEAN, org \in Origins, n \in 1..MaxChannels :
        /\ panel_width = pw /\ panel_height = ph
        /\ grid_width = gw /\ grid_height = gh
        /\ zigzag = zz /\ origin = org
        /\ sm_ids = FirstIds(n)
        /\ brightness = BrightDen
        /\ fb = <<>> /\ fb_dirty = FALSE
        /\ sms = [c \in Channels |-> TRUE]
        /\ tx_bufs = <<>>
        /\ dmas = <<>>
        /\ pix_map_sm = <<>> /\ pix_map_idx = <<>>
        /\ pc = "ctor_maps"
        /\ call = <<"init">>

MapNext == BuildMapEntries

SpecMap == MapInit /\ [][MapNext]_vars

----------------------------------------------------------------------------
(* SpecEllipse: one draw_ellipse call, with or without fill, on a canvas   *)
(* large enough to hold an ellipse of radius 2, blank or filled before.    *)

EllipseMaxW == 5
EllipseMaxH == 5

EllipseInit ==
    \E w \in 3..EllipseMaxW, h \in 3..EllipseMaxH :
        /\ Constructed(w, h, 1, 1, FALSE, "top_left", FirstIds(1), BrightDen)
        /\ call = <<"init">>

EllipseNext ==
    \/ FillCall
    \/ DrawEllipseCall

SpecEllipse == EllipseInit /\ [][EllipseNext]_vars

----------------------------------------------------------------------------
(* SpecLine: the general case of draw_line, one iteration of its loop at a *)
(* time.  While the loop runs, call holds the arguments and the locals:    *)
(* <<"draw_line", x0, y0, x1, y1, color, x, y, err, n>> with (x, y) the    *)
(* current point (the code's x0, y0), err the error term and n the number  *)
(* of steps taken.                                                         *)

\* no line between points of the argument range takes more steps
LineStepCap == DrawMaxW + DrawMaxH + 4 * Margin

\* the call's w, h, x1, y1, dx, dy, sx, sy and color (lines 169-208)
LineLocals(c) ==
    [w |-> fb_width, h |-> fb_height, x1 |-> c[4], y1 |-> c[5],
     dx |-> Abs(c[4] - c[2]), sx |-> IF c[2] < c[4] THEN 1 ELSE -1,
     dy |-> -Abs(c[5] - c[3]), sy |-> IF c[3] < c[5] THEN 1 ELSE -1,
     color |-> c[6]]

\* draw_line(x0, y0, x1, y1, color) with x0 # x1 and y0 # y1, up to the loop
LineBegin ==
    /\ pc = "main"
    /\ call[1] \in {"init", "fill"}
    /\ \E x0 \in XArgs(fb_width), y0 \in YArgs(fb_height),
           x1 \in XArgs(fb_width), y1 \in YArgs(fb_height), c \in OutlineColors :
        /\ x0 # x1 /\ y0 # y1
        /\ call' = <<"draw_line", x0, y0, x1, y1, c, x0, y0,
                     Abs(x1 - x0) - Abs(y1 - y0), 0>>
    /\ pc' = "line_loop"
    /\ UNCHANGED <<geomVars, mapVars, brightness, fb, fb_dirty, sms, tx_bufs, dmas>>

\* one iteration, lines 212-222: the guarded store, then the break and line
\* 223, or the step to the next point
LineStep ==
    /\ pc = "line_loop"
    /\ call[10] <= LineStepCap
    /\ fb' = IF InBounds(fb_width, fb_height, call[7], call[8])
             THEN [fb EXCEPT ![call[8] * fb_width + call[7]] = packed_of(call[6])]
             ELSE fb
    /\ IF call[7] = call[4] /\ call[8] = call[5]
       THEN /\ fb_dirty' = TRUE
            /\ pc' = "main"
            /\ call' = call
       ELSE /\ \E n \in {line_next(call[7], call[8], call[9], LineLocals(call))} :
                    call' = [call EXCEPT ![7] = n.x, ![8] = n.y, ![9] = n.err,
                                         ![10] = call[10] + 1]
            /\ UNCHANGED <<fb_dirty, pc>>
    /\ UNCHANGED <<geomVars, mapVars, brightness, sms, tx_bufs, dmas>>

LineNext ==
    \/ FillCall
    \/ LineBegin
    \/ LineStep

\* the CPU keeps running the loop
SpecLine == DrawInit /\ [][LineNext]_vars /\ WF_vars(LineStep)

----------------------------------------------------------------------------
(* SpecDeinit: teardown.  The engine with pixel writes, fills and updates, *)
(* and deinit, which runs step by step: clear's fill(0), clear's           *)
(* update(True) with its two waits, then the deactivation of every state   *)
(* machine.  Transfers complete on their own between the steps.            *)

\* deinit -> clear -> fill(0), lines 162, 151 and 154-159
DeinitClearFill ==
    /\ pc = "main"
    /\ fb' = [i \in Cells |-> packed_of(Hex(0))]
    /\ fb_dirty' = TRUE
    /\ pc' = "deinit_update"
    /\ UNCHANGED <<geomVars, mapVars, brightness, sms, tx_bufs, dmas, call>>

\* clear's update(True), line 152, up to its first wait
DeinitUpdateCall ==
    /\ pc = "deinit_update"
    /\ IF any_dma_active
       THEN pc' = "deinit_wait_idle" /\ UNCHANGED <<tx_bufs, fb_dirty, dmas>>
       ELSE pc' = "deinit_wait_done" /\ flush_and_trigger
    /\ UNCHANGED <<geomVars, mapVars, brightness, fb, sms, call>>

\* the loop of line 134 ends; lines 137-144 follow
DeinitUpdateIdle ==
    /\ pc = "deinit_wait_idle"
    /\ ~any_dma_active
    /\ flush_and_trigger
    /\ pc' = "deinit_wait_done"
    /\ UNCHANGED <<geomVars, mapVars, brightness, fb, sms, call>>

\* update(True) returning without the loop of line 147
DeinitUpdateReturn_no_wait ==
    /\ pc = "deinit_wait_done"
    /\ pc' = "deinit_sleep"
    /\ UNCHANGED <<geomVars, mapVars, brightness, fb, fb_dirty, sms, tx_bufs, dmas, call>>

\* the loop of line 147 ends when no channel is active; update and clear
\* return, and deinit sleeps at line 163
DeinitUpdateReturn ==
    /\ pc = "deinit_wait_done"
    /\ ~any_dma_active
    /\ pc' = "deinit_sleep"
    /\ UNCHANGED <<geomVars, mapVars, brightness, fb, fb_dirty, sms, tx_bufs, dmas, call>>

\* lines 164-165: sm.active(0) for every state machine; deinit returns
DeinitDeactivate ==
    /\ pc = "deinit_sleep"
    /\ sms' = [c \in Channels |-> FALSE]
    /\ pc' = "closed"
    /\ UNCHANGED <<geomVars, mapVars, brightness, fb, fb_dirty, tx_bufs, dmas, call>>

DeinitNext ==
    \/ SetPixel
    \/ Fill
    \/ UpdateNoWait
    \/ UpdateWaitCall
    \/ UpdateWaitIdle
    \/ UpdateWaitReturn
    \/ \E c \in Channels : DmaComplete(c)
    \/ DeinitClearFill
    \/ DeinitUpdateCall
    \/ DeinitUpdateIdle
    \/ DeinitUpdateReturn
    \/ DeinitDeactivate

SpecDeinit == Init /\ [][DeinitNext]_vars

----------------------------------------------------------------------------
(* SpecArgs: argument checking.  One call of every operation, with colors  *)
(* that are valid and colors that __normalize_color refuses, on a canvas   *)
(* that is blank or was filled before; call keeps the arguments and, as    *)
(* its last element, the exception the call raised ("no" if it returned).  *)

ArgsMaxW == 2
ArgsMaxH == 2
ArgsMaxExtent == 2

\* 0xFF0000; (0, 256, 0); a sequence of two; 0x1000000
ArgsOutlines ==
    {Palette[1], Rgb(0, 256, 0), [t |-> "rgb", v |-> <<1, 2>>], Hex(16777216)}
\* no fill; (0, 255, 0); (0, 0, -1); -1
ArgsFills == {None, Palette[2], Rgb(0, 0, 0 - 1), Hex(0 - 1)}
ArgsExtents == 0..ArgsMaxExtent
ArgsLengths == 0..(2 * ArgsMaxExtent)
ArgsAngles == {0, 45, 90}

ArgsCall(c, e) ==
    \E o \in {Outcome(fb_width, fb_height, e)} :
        /\ Draw(o)
        /\ call' = Append(c, o.raised)

\* no call was made yet, or the canvas was filled
ArgsReady == call[1] = "init" \/ (call[1] = "fill" /\ call[Len(call)] = "no")

ArgsFill ==
    /\ call = <<"init">>
    /\ \E c \in ArgsOutlines \cup {Palette[3]} :
            ArgsCall(<<"fill", c>>, fill(fb_width, fb_height, c))

ArgsPixelWrite ==
    /\ ArgsReady
    /\ \E x \in XArgs(fb_width), y \in YArgs(fb_height), c \in ArgsOutlines :
            ArgsCall(<<"pixel_write", x, y, c>>,
                     pixel_write(fb_width, fb_height, x, y, c))

ArgsDrawLine ==
    /\ ArgsReady
    /\ \E x0 \in XArgs(fb_width), y0 \in YArgs(fb_height),
           x1 \in XArgs(fb_width), y1 \in YArgs(fb_height), c \in ArgsOutlines :
            ArgsCall(<<"draw_line", x0, y0, x1, y1, c>>,
                     draw_line(fb_width, fb_height, x0, y0, x1, y1, c))

ArgsDrawLinePolar ==
    /\ ArgsReady
    /\ \E cx \in XArgs(fb_width), cy \in YArgs(fb_height), len \in ArgsLengths,
           a \in ArgsAngles, c \in ArgsOutlines :
            ArgsCall(<<"draw_line_polar", cx, cy, len, a, c>>,
                     draw_line_polar(fb_width, fb_height, cx, cy, len, a, c))

ArgsDrawRect ==
    /\ ArgsReady
    /\ \E x \in XArgs(fb_width), y \in YArgs(fb_height), w \in ArgsExtents,
           h \in ArgsExtents, c \in ArgsOutlines, f \in ArgsFills :
            ArgsCall(<<"draw_rect", x, y, w, h, c, f>>,
                     draw_rect(fb_width, fb_height, x, y, w, h, c, f))

ArgsDrawRectPolar ==
    /\ ArgsReady
    /\ \E cx \in XArgs(fb_width), cy \in YArgs(fb_height), w \in ArgsExtents,
           h \in ArgsExtents, a \in {0, 90}, c \in ArgsOutlines, f \in ArgsFills :
            ArgsCall(<<"draw_rect_polar", cx, cy, w, h, a, c, f>>,
                     draw_rect_polar(fb_width, fb_height, cx, cy, w, h, a, c, f))

ArgsDrawEllipse ==
    /\ ArgsReady
    /\ \E cx \in XArgs(fb_width), cy \in YArgs(fb_height), rx \in ArgsExtents,
           ry \in ArgsExtents, c \in ArgsOutlines, f \in ArgsFills :
            ArgsCall(<<"draw_ellipse", cx, cy, rx, ry, c, f>>,
                     draw_ellipse(fb_width, fb_height, cx, cy, rx, ry, c, f))

ArgsDrawCircle ==
    /\ ArgsReady
    /\ \E cx \in XArgs(fb_width), cy \in YArgs(fb_height), r \in ArgsExtents,
           c \in ArgsOutlines, f \in ArgsFills :
            ArgsCall(<<"draw_circle", cx, cy, r, c, f>>,
                     draw_circle(fb_width, fb_height, cx, cy, r, c, f))

ArgsInit ==
    \E w \in 1..ArgsMaxW, h \in 1..ArgsMaxH :
        /\ Constructed(w, h, 1, 1, FALSE, "top_left", FirstIds(1), BrightDen)
        /\ call = <<"init">>

ArgsNext ==
    \/ ArgsFill
    \/ ArgsPixelWrite
    \/ ArgsDrawLine
    \/ ArgsDrawLinePolar
    \/ ArgsDrawRect
    \/ ArgsDrawRectPolar
    \/ ArgsDrawEllipse
    \/ ArgsDrawCircle

SpecArgs == ArgsInit /\ [][ArgsNext]_vars

----------------------------------------------------------------------------
(* SpecCtor: construction.  __init__ runs step by step; acquiring a        *)
(* channel's pin and state machine, or a DMA unit, succeeds or raises      *)
(* OSError as the hardware decides.                                        *)

\* arguments given to __init__
OriginArgs == Origins \cup {"center"}
IdLists ==
    {FirstIds(n) : n \in 1..MaxChannels}
        \cup {[k \in 1..n |-> IF k = bad THEN v ELSE k - 1] :
                n \in 1..MaxChannels, bad \in 1..MaxChannels, v \in {0 - 1, 12}}

\* lines 24-51 with the state machine ids checked only as each channel is
\* brought up, not in the loop of lines 27-29
CtorBegin_no_id_check ==
    /\ pc = "ctor"
    /\ IF origin \notin Origins
       THEN /\ pc' = "ctor_raised"
            /\ UNCHANGED <<brightness, fb, fb_dirty, sms, tx_bufs>>
       ELSE /\ fb' = [i \in Cells |-> ZeroPixel]
            /\ fb_dirty' = FALSE
            /\ brightness' = clamp_brightness(brightness)
            /\ sms' = <<>>
            /\ tx_bufs' = <<>>
            /\ pc' = "ctor_channels"
    /\ UNCHANGED <<geomVars, mapVars, dmas, call>>

\* lines 24-51: the checks of origin and of every state machine id, then the
\* framebuffer, the brightness and the empty lists
CtorBegin ==
    /\ pc = "ctor"
    /\ IF origin \notin Origins \/ \E k \in 1..Len(sm_ids) : ~(0 <= sm_ids[k] /\ sm_ids[k] <= 11)
       THEN /\ pc' = "ctor_raised"
            /\ UNCHANGED <<brightness, fb, fb_dirty, sms, tx_bufs>>
       ELSE /\ fb' = [i \in Cells |-> ZeroPixel]
            /\ fb_dirty' = FALSE
            /\ brightness' = clamp_brightness(brightness)
            /\ sms' = <<>>
            /\ tx_bufs' = <<>>
            /\ pc' = "ctor_channels"
    /\ UNCHANGED <<geomVars, mapVars, dmas, call>>

\* lines 53-67, one iteration: the channel comes up and is appended, or an
\* OSError deactivates every state machine appended so far and is raised
CtorChannel ==
    /\ pc = "ctor_channels"
    /\ Len(sms) < NumChannels
    /\ \/ /\ sms' = Append(sms, TRUE)
          /\ tx_bufs' = Append(tx_bufs, [k \in Slots |-> ZeroPixel])
          /\ pc' = "ctor_channels"
       \/ /\ sms' = [c \in DOMAIN sms |-> FALSE]
          /\ pc' = "ctor_raised"
          /\ UNCHANGED tx_bufs
    /\ UNCHANGED <<geomVars, mapVars, brightness, fb, fb_dirty, dmas, call>>

\* lines 69-72, after the loop: one rp2.DMA() per channel, outside any try,
\* then the pixel maps; the lists become the 0-based tables of the object
CtorFinish ==
    /\ pc = "ctor_channels"
    /\ Len(sms) = NumChannels
    /\ \/ /\ dmas' = [c \in Channels |-> FALSE]
          /\ sms' = [c \in Channels |-> sms[c + 1]]
          /\ tx_bufs' = [c \in Channels |-> tx_bufs[c + 1]]
          /\ pix_map_sm' = build_pix_map_sm
          /\ pix_map_idx' = build_pix_map_idx
          /\ pc' = "main"
       \/ /\ pc' = "ctor_raised"
          /\ UNCHANGED <<dmas, sms, tx_bufs, pix_map_sm, pix_map_idx>>
    /\ UNCHANGED <<geomVars, brightness, fb, fb_dirty, call>>

CtorInit ==
    \E pw \in 1..MaxPanelW, ph \in 1..MaxPanelH, gw \in 1..MaxGridW, gh \in 1..MaxGridH,
       zz \in BOOLEAN, org \in OriginArgs, ids \in IdLists, br \in {0 - 1, 1, BrightDen + 1} :
        /\ panel_width = pw /\ panel_height = ph
        /\ grid_width = gw /\ grid_height = gh
        /\ zigzag = zz /\ origin = org
        /\ sm_ids = ids
        /\ brightness = br
        /\ fb = <<>> /\ fb_dirty = FALSE
        /\ sms = <<>> /\ tx_bufs = <<>> /\ dmas = <<>>
        /\ pix_map_sm = <<>> /\ pix_map_idx = <<>>
        /\ pc = "ctor"
        /\ call = <<>>

CtorNext ==
    \/ CtorBegin
    \/ CtorChannel
    \/ CtorFinish

SpecCtor == CtorInit /\ [][CtorNext]_vars

----------------------------------------------------------------------------
(* Properties of the transmission engine (Spec).                           *)

\* the transfer buffers bufs are the mapped image of the framebuffer f: the
\* slot the mapper gives a cell holds the cell, any other slot holds 0
MappedImage(bufs, f) ==
    \A c \in Channels, k \in Slots :
        LET src == {i \in Cells : coord_to_index(i % fb_width, i \div fb_width) = <<c, k>>}
        IN  IF src = {} THEN bufs[c][k] = ZeroPixel
            ELSE \A i \in src : bufs[c][k] = f[i]

\* C1: in every interleaving of drawing calls, both forms of update and
\* transfer completions, a step that changes a transfer buffer is the flush
\* inside update (dirty before, clean after, framebuffer untouched, the
\* buffers becoming the flushed framebuffer) and is taken with every
\* channel's transfer unit idle.
C1_TxWrittenOnlyByFlushWhileIdle ==
    [][tx_bufs' # tx_bufs =>
        /\ \A c \in Channels : ~dmas[c]
        /\ pc \in {"main", "wait_idle"}
        /\ fb_dirty /\ ~fb_dirty'
        /\ fb' = fb
        /\ tx_bufs' = flush_fb_to_txb(tx_bufs)]_vars

\* a frame was flushed, a channel is still sending it, and new drawing waits
C1_Witness ==
    /\ pc = "main"
    /\ NumChannels = 2
    /\ dmas[0] /\ ~dmas[1]
    /\ fb_dirty
    /\ \E c \in Channels, k \in Slots : tx_bufs[c][k] # ZeroPixel
    /\ \E i \in Cells : tx_bufs[pix_map_sm[i]][pix_map_idx[i]] # fb[i]

\* C2: update(wait=False) called while some channel's transfer unit is busy
\* leaves the transfer buffers, the framebuffer and the dirty flag as they
\* were and starts no transfer, not even on an idle channel; it returns at
\* once (the CPU is back between calls).
C2_UpdateNoWaitBusyIsNoOp ==
    [][(UpdateNoWait /\ \E c \in Channels : dmas[c]) =>
        /\ UNCHANGED <<tx_bufs, fb, fb_dirty, dmas>>
        /\ pc' = "main"]_vars

\* the call's case: one channel busy, another idle, unflushed drawing
C2_Witness ==
    /\ pc = "main"
    /\ \E c \in Channels : dmas[c]
    /\ \E c \in Channels : ~dmas[c]
    /\ fb_dirty
    /\ \E i \in Cells : fb[i] # ZeroPixel
    /\ \A c \in Channels, k \in Slots : tx_bufs[c][k] = ZeroPixel

\* C3: at the step on which update(wait=True) returns, the dirty flag is
\* false and every channel's transfer unit is idle, whatever they were at
\* the call.
C3_UpdateWaitReturnsCleanAndIdle ==
    [][(pc \in {"wait_idle", "wait_done"} /\ pc' = "main") =>
        /\ ~fb_dirty'
        /\ \A c \in Channels : ~dmas'[c]]_vars

\* update(wait=True) flushed a drawn frame, sent it on two channels, and is
\* about to return
C3_Witness ==
    /\ pc = "wait_done"
    /\ NumChannels = 2
    /\ \A c \in Channels : ~dmas[c]
    /\ ~fb_dirty
    /\ \E c \in Channels, k \in Slots : tx_bufs[c][k] # ZeroPixel

\* a step on which an update call that did not return early returns:
\* update(wait=True), or update(wait=False) entered with all channels idle
UpdateCompletes ==
    \/ pc = "wait_done" /\ pc' = "main"
    \/ /\ pc = "main" /\ pc' = "main"
       /\ \A c \in Channels : ~dmas[c]
       /\ \A c \in Channels : dmas'[c]

\* C4: after any update call that does not return early the transfer
\* buffers are exactly the mapped image of the framebuffer: the slot
\* (channel(i), offset(i)) holds framebuffer[i] for every index i, and every
\* slot the mapper does not address holds 0.
C4_UpdateLeavesMappedImage ==
    [][UpdateCompletes => MappedImage(tx_bufs', fb')]_vars

\* fill(0xFF0000) then update on three panels over two channels: every
\* cell and every addressed slot is pack(255, 0, 0), and the second channel's
\* trailing panel, which the mapper never addresses, is 0
C4_Witness ==
    /\ pc = "main"
    /\ ~fb_dirty
    /\ NumChannels = 2
    /\ grid_width * grid_height = 3
    /\ \A i \in Cells : fb[i] = <<0, 255, 0, 0>>
    /\ \A k \in Slots : tx_bufs[0][k] = <<0, 255, 0, 0>>
    /\ \E k \in Slots : tx_bufs[1][k] = <<0, 255, 0, 0>>
    /\ \E k \in Slots : tx_bufs[1][k] = ZeroPixel

\* a 2 x 1 panel grid on two channels
TwoByOne == grid_width = 2 /\ grid_height = 1 /\ NumChannels = 2
\* the framebuffer cells of panel c of a one-row grid
PanelCells(c) == {i \in Cells : (i % fb_width) \div panel_width = c}

\* C6: on a two-channel matrix over a 2 x 1 panel grid, whenever the
\* transfer buffers change, every slot of channel 0's buffer holds the value
\* of a cell of the left panel and every slot of channel 1's buffer the
\* value of a cell of the right panel: what is drawn in one panel reaches
\* only its own channel's buffer.
C6_PanelsReachOwnChannelOnly ==
    [][(TwoByOne /\ tx_bufs' # tx_bufs) =>
        \A c \in Channels, k \in Slots :
            tx_bufs'[c][k] \in {fb[i] : i \in PanelCells(c)}]_vars

\* a pixel drawn in the left panel only was flushed: channel 0 carries it,
\* channel 1 carries nothing
C6_Witness ==
    /\ TwoByOne
    /\ ~fb_dirty
    /\ \E i \in PanelCells(0) : fb[i] # ZeroPixel
    /\ \A i \in PanelCells(1) : fb[i] = ZeroPixel
    /\ \E k \in Slots : tx_bufs[0][k] # ZeroPixel
    /\ \A k \in Slots : tx_bufs[1][k] = ZeroPixel

\* C9: in every reachable state with the dirty flag false, the transfer
\* buffer slot the mapper gives framebuffer index i holds framebuffer[i],
\* for every i (every operation that changes a cell sets the flag, and only
\* the flush clears it).
C9_CleanMeansFlushed ==
    ~fb_dirty =>
        \A i \in Cells :
            LET m == coord_to_index(i % fb_width, i \div fb_width)
            IN  tx_bufs[m[1]][m[2]] = fb[i]

\* a drawn frame was flushed and nothing was drawn since
C9_Witness ==
    /\ pc = "main"
    /\ ~fb_dirty
    /\ fb_length = MaxCells
    /\ \E i \in Cells : fb[i] # ZeroPixel
    /\ \E i \in Cells : fb[i] = ZeroPixel

----------------------------------------------------------------------------
(* Properties of construction (SpecCtor).                                  *)

\* the (channel, offset) pair the built tables give framebuffer index i
MapPair(i) == <<pix_map_sm[i], pix_map_idx[i]>>

C10_FailedConstructionLeavesNoChannelActive ==
    pc = "ctor_raised" => \A c \in DOMAIN sms : ~sms[c]

----------------------------------------------------------------------------
(* Properties of pixel access (SpecPixel).                                 *)

\* the (r, g, b) triple a valid color argument denotes: the triple itself,
\* or the bytes of a packed 0xRRGGBB integer
ColorTriple(color) ==
    IF color.t = "rgb" THEN color.v
    ELSE <<color.v \div 65536, (color.v \div 256) % 256, color.v % 256>>

\* C7: with brightness 1.0, writing a valid color (a triple or a packed
\* integer) to an in-canvas (x, y) and reading the pixel back gives that
\* color as an (r, g, b) triple, and no other framebuffer cell changes.
C7_PixelRoundTrip ==
    [][(/\ call'[1] = "pixel_write"
        /\ brightness = BrightDen
        /\ InBounds(fb_width, fb_height, call'[2], call'[3])) =>
            /\ pixel_value(fb'[call'[3] * fb_width + call'[2]]) = ColorTriple(call'[4])
            /\ \A i \in Cells \ {call'[3] * fb_width + call'[2]} : fb'[i] = fb[i]]_vars

\* m[1, 1].value = 0x123456 on a filled 2 x 2 canvas at full brightness
C7_Witness ==
    /\ call = <<"pixel_write", 1, 1, Hex(1193046)>>
    /\ brightness = BrightDen
    /\ fb_width = 2 /\ fb_height = 2
    /\ pixel_value(fb[3]) = <<18, 52, 86>>
    /\ \A i \in 0..2 : fb[i] = <<255, 255, 255, 0>>

----------------------------------------------------------------------------
(* Properties of the rasterizer (SpecDraw).                                *)

RasterOps == {"draw_line", "draw_line_polar", "draw_rect", "draw_rect_polar",
              "draw_ellipse", "draw_circle"}

\* a box [xlo, xhi, ylo, yhi] that holds every point of the shape a call
\* names (for a rotated rectangle, of either orientation)
ShapeBox(c) ==
    CASE c[1] = "draw_line" ->
            [xlo |-> Min2(c[2], c[4]), xhi |-> Max2(c[2], c[4]),
             ylo |-> Min2(c[3], c[5]), yhi |-> Max2(c[3], c[5])]
      [] c[1] = "draw_line_polar" ->
            [xlo |-> c[2] - c[4] \div 2, xhi |-> c[2] + c[4] \div 2,
             ylo |-> c[3] - c[4] \div 2, yhi |-> c[3] + c[4] \div 2]
      [] c[1] = "draw_rect" ->
            [xlo |-> c[2], xhi |-> c[2] + c[4] - 1,
             ylo |-> c[3], yhi |-> c[3] + c[5] - 1]
      [] c[1] = "draw_rect_polar" ->
            [xlo |-> c[2] - Max2(c[4], c[5]), xhi |-> c[2] + Max2(c[4], c[5]),
             ylo |-> c[3] - Max2(c[4], c[5]), yhi |-> c[3] + Max2(c[4], c[5])]
      [] c[1] = "draw_ellipse" ->
            [xlo |-> c[2] - c[4], xhi |-> c[2] + c[4],
             ylo |-> c[3] - c[5], yhi |-> c[3] + c[5]]
      [] c[1] = "draw_circle" ->
            [xlo |-> c[2] - c[4], xhi |-> c[2] + c[4],
             ylo |-> c[3] - c[4], yhi |-> c[3] + c[4]]

----------------------------------------------------------------------------
(* More properties of construction (SpecCtor).                             *)

\* the arguments name an origin that does not exist or a state machine
\* outside 0..11
BadConfig ==
    \/ origin \notin Origins
    \/ \E k \in 1..Len(sm_ids) : sm_ids[k] < 0 \/ sm_ids[k] > 11

\* C11: construction with an unknown origin name, or with any state machine
\* id outside 0..11 (the last pair's included), fails before any pin, state
\* machine or transfer unit was acquired or activated: no channel is ever
\* brought up, and once the constructor has run it has raised.
C11_BadConfigFailsBeforeHardware ==
    BadConfig =>
        /\ pc \in {"ctor", "ctor_raised"}
        /\ sms = <<>>
        /\ tx_bufs = <<>>
        /\ dmas = <<>>

\* two pairs, the second with state machine 12: the constructor raised
C11_Witness ==
    /\ pc = "ctor_raised"
    /\ origin = "top_left"
    /\ sm_ids = <<0, 12>>
    /\ sms = <<>>

----------------------------------------------------------------------------
(* Properties of argument checking (SpecArgs).                             *)

\* the exception a finished call raised, "no" if it returned
ResultOf(c) == c[Len(c)]

\* C12: m[x, y] with (x, y) outside the canvas, negative coordinates
\* included, raises IndexError and leaves the framebuffer, the dirty flag
\* and the transfer buffers as they were; with (x, y) on the canvas it never
\* raises IndexError, and a write of a valid color through it sets the cell.
C12_IndexOutsideCanvasRaises ==
    [][call'[1] = "pixel_write" =>
        IF InBounds(fb_width, fb_height, call'[2], call'[3])
        THEN /\ ResultOf(call') # "IndexError"
             /\ (normalize_color(call'[4]) # "ValueError" =>
                    /\ ResultOf(call') = "no"
                    /\ fb'[call'[3] * fb_width + call'[2]] = packed_of(call'[4]))
        ELSE /\ ResultOf(call') = "IndexError"
             /\ fb' = fb
             /\ fb_dirty' = fb_dirty
             /\ tx_bufs' = tx_bufs]_vars

\* m[-1, 0].value = 0xFF0000 on a filled canvas raised IndexError
C12_Witness ==
    /\ call = <<"pixel_write", 0 - 1, 0, Palette[1], "IndexError">>
    /\ fb_width = 2
    /\ \A i \in Cells : fb[i] = packed_of(Palette[3])

\* the colors a finished call was given, an omitted fill left out
ColorArgs(c) ==
    LET at == CASE c[1] = "fill" -> {2}
                [] c[1] = "pixel_write" -> {4}
                [] c[1] \in {"draw_line", "draw_line_polar"} -> {6}
                [] c[1] \in {"draw_rect", "draw_ellipse"} -> {6, 7}
                [] c[1] = "draw_rect_polar" -> {7, 8}
                [] c[1] = "draw_circle" -> {5, 6}
                [] OTHER -> {}
    IN  {c[k] : k \in at} \ {None}

\* the call has positive extents: a width and height, two radii, a radius or
\* a length above 0; a pixel write names a pixel of the canvas
PositiveExtents(c) ==
    CASE c[1] \in {"draw_rect", "draw_rect_polar", "draw_ellipse"} -> c[4] > 0 /\ c[5] > 0
      [] c[1] \in {"draw_circle", "draw_line_polar"} -> c[4] > 0
      [] c[1] = "pixel_write" -> InBounds(fb_width, fb_height, c[2], c[3])
      [] OTHER -> TRUE

\* C13: a pixel write, a fill or a drawing call with positive extents that
\* is given a color __normalize_color refuses, as the outline or as the
\* fill, raises ValueError before it writes any cell: the framebuffer and
\* the dirty flag are as they were.
C13_InvalidColorRaisesBeforeAnyWrite ==
    [][(/\ call' # call
        /\ PositiveExtents(call')
        /\ \E color \in ColorArgs(call') : normalize_color(color) = "ValueError")
       => /\ ResultOf(call') = "ValueError"
          /\ fb' = fb
          /\ fb_dirty' = fb_dirty]_vars

----------------------------------------------------------------------------
(* More properties of the rasterizer (SpecDraw).                           *)

\* the cell of the in-canvas point (x, y)
CellOf(x, y) == y * fb_width + x
Columns == 0..(fb_width - 1)
Rows == 0..(fb_height - 1)

\* C14: a horizontal draw_line(x0, y, x1, y, color) with y on the canvas
\* sets exactly the pixels (x, y) with max(0, min(x0, x1)) <= x <=
\* min(width - 1, max(x0, x1)) to the packed color and changes no other
\* cell; with y off the canvas it changes nothing.
C14_HorizontalLineSetsClippedRun ==
    [][(call'[1] = "draw_line" /\ call'[3] = call'[5]) =>
        /\ pc' = "main"
        /\ \A x \in Columns, y \in Rows :
            IF /\ y = call'[3]
               /\ Max2(0, Min2(call'[2], call'[4])) <= x
               /\ x <= Min2(fb_width - 1, Max2(call'[2], call'[4]))
            THEN fb'[CellOf(x, y)] = packed_of(call'[6])
            ELSE fb'[CellOf(x, y)] = fb[CellOf(x, y)]]_vars

\* draw_line(-1, 1, 4, 1, 0xFF0000) on a filled 4x4 canvas: row 1 is red,
\* the rows above and below are as the fill left them
C14_Witness ==
    /\ call = <<"draw_line", 0 - 1, 1, 4, 1, Palette[1]>>
    /\ fb_width = 4 /\ fb_height = 4
    /\ \A i \in 4..7 : fb[i] = packed_of(Palette[1])
    /\ \A i \in (0..3) \cup (8..15) : fb[i] = packed_of(Palette[3])

\* the rectangle of a finished draw_rect call c: its columns c[2]..c[2]+w-1
\* and rows c[3]..c[3]+h-1
InRect(c, x, y) ==
    /\ c[2] <= x /\ x <= c[2] + c[4] - 1
    /\ c[3] <= y /\ y <= c[3] + c[5] - 1
OnPerimeter(c, x, y) ==
    /\ InRect(c, x, y)
    /\ \/ x = c[2] \/ x = c[2] + c[4] - 1
       \/ y = c[3] \/ y = c[3] + c[5] - 1
RectOnCanvas(c) ==
    /\ 0 <= c[2] /\ c[2] + c[4] <= fb_width
    /\ 0 <= c[3] /\ c[3] + c[5] <= fb_height

\* what draw_rect(x, y, w, h, outline, fill) is to leave in the in-canvas
\* cell of (px, py): the outline on the perimeter, the fill inside (the old
\* value if the fill is omitted), the old value outside
RectExpected(c, px, py) ==
    IF OnPerimeter(c, px, py) THEN packed_of(c[6])
    ELSE IF InRect(c, px, py) /\ c[7] # None THEN packed_of(c[7])
    ELSE fb[CellOf(px, py)]

\* C15: draw_rect(x, y, w, h, outline, fill) with w, h >= 3 and the
\* rectangle wholly on the canvas leaves every perimeter pixel at the packed
\* outline, every interior pixel at the packed fill (unchanged if the fill
\* is omitted) and every pixel outside the rectangle unchanged.
C15_RectOnCanvasIsOutlinedAndFilled ==
    [][(/\ call'[1] = "draw_rect"
        /\ call'[4] >= 3 /\ call'[5] >= 3
        /\ RectOnCanvas(call'))
       => /\ pc' = "main"
          /\ \A px \in Columns, py \in Rows :
                fb'[CellOf(px, py)] = RectExpected(call', px, py)]_vars

\* draw_rect(1, 1, 3, 3, 0xFF0000, fill=(0, 255, 0)) on a filled 4x4 canvas
C15_Witness ==
    /\ call = <<"draw_rect", 1, 1, 3, 3, Palette[1], Palette[2]>>
    /\ fb_width = 4 /\ fb_height = 4
    /\ fb[10] = packed_of(Palette[2])
    /\ \A i \in {5, 6, 7, 9, 11, 13, 14, 15} : fb[i] = packed_of(Palette[1])
    /\ \A i \in {0, 1, 2, 3, 4, 8, 12} : fb[i] = packed_of(Palette[3])

\* the reflections of (x, y) across the vertical and the horizontal line
\* through (cx, cy), and both
Mirrors(cx, cy, x, y) ==
    {<<2 * cx - x, y>>, <<x, 2 * cy - y>>, <<2 * cx - x, 2 * cy - y>>}

\* C16: draw_ellipse(cx, cy, r, r, outline) without fill and without
\* rotation sets a pixel set symmetric under reflection across the
\* horizontal and the vertical line through (cx, cy): for every pixel it
\* sets, each of the three mirror pixels that lies on the canvas holds the
\* packed outline too.
C16_CircleOutlineIsSymmetric ==
    [][(/\ call'[1] = "draw_ellipse"
        /\ call'[4] = call'[5]
        /\ call'[7] = None)
       => /\ pc' = "main"
          /\ \A x \in Columns, y \in Rows :
                fb'[CellOf(x, y)] # fb[CellOf(x, y)] =>
                    /\ fb'[CellOf(x, y)] = packed_of(call'[6])
                    /\ \A m \in Mirrors(call'[2], call'[3], x, y) :
                            InBounds(fb_width, fb_height, m[1], m[2]) =>
                                fb'[CellOf(m[1], m[2])] = packed_of(call'[6])]_vars

\* draw_ellipse(1, 1, 2, 2, 0xFF0000) on a 4x4 canvas: (3, 1) and (1, 3),
\* (0, 3) and (2, 3), (3, 0) and (3, 2) are set, the centre is not
C16_Witness ==
    /\ call = <<"draw_ellipse", 1, 1, 2, 2, Palette[1], None>>
    /\ fb_width = 4 /\ fb_height = 4
    /\ \A i \in {3, 7, 11, 12, 13, 14} : fb[i] = packed_of(Palette[1])
    /\ fb[5] # packed_of(Palette[1])

----------------------------------------------------------------------------
(* Properties of teardown (SpecDeinit).                                    *)

\* C17: deinit clears and flushes synchronously, and only then deactivates
\* the channels: no state machine is deactivated while a channel's transfer
\* is in progress, and when deinit returns every framebuffer cell and every
\* transfer-buffer slot is 0, the dirty flag is false, no channel is busy
\* and every state machine is inactive.
C17_DeinitClearsFlushesThenDeactivates ==
    /\ [][\A c \in Channels : (sms[c] /\ ~sms'[c]) => ~dmas[c]]_vars
    /\ [](pc = "closed" =>
            /\ \A i \in Cells : fb[i] = ZeroPixel
            /\ \A c \in Channels : \A k \in Slots : tx_bufs[c][k] = ZeroPixel
            /\ ~fb_dirty
            /\ \A c \in Channels : ~dmas[c] /\ ~sms[c])

\* deinit has returned on a two-channel matrix
C17_Witness ==
    /\ pc = "closed"
    /\ NumChannels = 2
    /\ fb_length = 4
    /\ \A c \in Channels : ~sms[c]

\* C18: a vertical draw_line(x, y0, x, y1, color) with y0 # y1 and x on the
\* canvas sets exactly one pixel of column x in every row from
\* max(0, min(y0, y1)) to min(height - 1, max(y0, y1)) and changes no pixel
\* of another column; with x off the canvas it changes nothing.
C18_VerticalLineStaysInItsColumn ==
    [][(/\ call'[1] = "draw_line"
        /\ call'[2] = call'[4]
        /\ call'[3] # call'[5])
       => /\ pc' = "main"
          /\ \A x \in Columns, y \in Rows :
                IF /\ x = call'[2]
                   /\ Max2(0, Min2(call'[3], call'[5])) <= y
                   /\ y <= Min2(fb_height - 1, Max2(call'[3], call'[5]))
                THEN fb'[CellOf(x, y)] = packed_of(call'[6])
                ELSE fb'[CellOf(x, y)] = fb[CellOf(x, y)]]_vars

\* C19: draw_rect clips to the canvas without losing in-canvas pixels: for
\* a rectangle (two or more columns wide) that extends past an edge of the
\* canvas, every perimeter pixel that lies on the canvas is at the packed
\* outline and, with a fill and w, h >= 3, every interior pixel that lies on
\* the canvas is at the packed fill, rows 0 and height - 1 included.
C19_ClippedRectLosesNoPixel ==
    [][(/\ call'[1] = "draw_rect"
        /\ call'[4] >= 2 /\ call'[5] >= 1
        /\ ~RectOnCanvas(call'))
       => \A px \in Columns, py \in Rows :
            /\ OnPerimeter(call', px, py) =>
                    fb'[CellOf(px, py)] = packed_of(call'[6])
            /\ (/\ InRect(call', px, py) /\ ~OnPerimeter(call', px, py)
                /\ call'[7] # None /\ call'[4] >= 3 /\ call'[5] >= 3)
                   => fb'[CellOf(px, py)] = packed_of(call'[7])]_vars

\* C20: for every rectangle with w >= 1 and h >= 1 that lies on the canvas,
\* thin ones with w = 1 or h = 1 included, draw_rect sets every pixel of the
\* rectangle's border to the packed outline.
C20_ThinRectBorderIsComplete ==
    [][(/\ call'[1] = "draw_rect"
        /\ call'[4] >= 1 /\ call'[5] >= 1
        /\ RectOnCanvas(call'))
       => \A px \in Columns, py \in Rows :
            OnPerimeter(call', px, py) =>
                fb'[CellOf(px, py)] = packed_of(call'[6])]_vars

----------------------------------------------------------------------------
(* Properties of polling (SpecPoll).                                       *)

\* a call has just flushed: the flag is false, every channel sends, and the
\* buffers are the mapped image of the framebuffer
FrameSent ==
    /\ ~fb_dirty
    /\ \A c \in Channels : dmas[c]
    /\ MappedImage(tx_bufs, fb)

\* C21: update(wait=False) never blocks, and polling only drops frames: if
\* the framebuffer is dirty, the caller keeps calling update(wait=False)
\* and every started transfer completes, then eventually a call flushes and
\* starts a transfer of buffers that are the mapped framebuffer of that
\* call; every transfer ever started carries a whole flushed snapshot, and
\* the buffers are not touched while a channel sends.
C21_PollingSendsTheLastFrame ==
    /\ fb_dirty ~> FrameSent
    /\ [](pc = "main")
    /\ [][(\E c \in Channels : ~dmas[c] /\ dmas'[c]) =>
            /\ \A c \in Channels : ~dmas[c]
            /\ ~fb_dirty'
            /\ MappedImage(tx_bufs', fb)
            /\ fb' = fb]_vars
    /\ [][(\E c \in Channels : dmas[c]) => tx_bufs' = tx_bufs]_vars

\* a second frame was drawn while both channels were still sending the first
C21_Witness ==
    /\ NumChannels = 2
    /\ \A c \in Channels : dmas[c]
    /\ fb_dirty
    /\ \E c \in Channels, k \in Slots : tx_bufs[c][k] # ZeroPixel
    /\ ~MappedImage(tx_bufs, fb)

----------------------------------------------------------------------------
(* Properties of the blocking update (SpecWait).                           *)

\* update(wait=True) was called and has not returned
InUpdateWait == pc \in {"wait_idle", "wait_done"}

\* C22: update(wait=True) returns if and only if every channel's transfer
\* eventually completes: a call either returns or, from some point on, a
\* channel is busy for ever (there is no timeout); it does not return on a
\* step that finds or leaves a channel busy; and while a channel stays busy
\* for ever the call does not return.
C22_UpdateWaitReturnsIffTransfersComplete ==
    /\ [](InUpdateWait => (<>(pc = "main") \/ <>[](\E c \in Channels : dmas[c])))
    /\ [][(InUpdateWait /\ pc' = "main") =>
            /\ pc = "wait_done"
            /\ \A c \in Channels : ~dmas[c] /\ ~dmas'[c]]_vars
    /\ []((InUpdateWait /\ [](\E c \in Channels : dmas[c])) => [](pc # "main"))

\* update(wait=True) has started both channels; one has completed, the call
\* waits for the other
C22_Witness ==
    /\ pc = "wait_done"
    /\ NumChannels = 2
    /\ ~dmas[0] /\ dmas[1]
    /\ ~fb_dirty
    /\ \E i \in Cells : fb[i] # ZeroPixel

----------------------------------------------------------------------------
(* Properties of the pixel maps at any size (SpecMap).                     *)

\* the reference formula: the panel of (x, y), counted row by row
RefPanelId(x, y) == (y \div panel_height) * grid_width + (x \div panel_width)
\* the local row, flipped vertically for an origin at the bottom
RefRow(x, y) ==
    IF origin \in {"bottom_left", "bottom_right"}
    THEN panel_height - 1 - (y % panel_height)
    ELSE y % panel_height
\* the local column, flipped for an origin at the right, and flipped again
\* on an odd (already flipped) local row of a zigzag panel
RefCol(x, y) ==
    LET c == IF origin \in {"top_right", "bottom_right"}
             THEN panel_width - 1 - (x % panel_width)
             ELSE x % panel_width
    IN  IF zigzag /\ RefRow(x, y) % 2 = 1 THEN panel_width - 1 - c ELSE c
\* ceil(total_panels / channel_count)
RefPanelsPerChannel ==
    CHOOSE q \in 1..(grid_width * grid_height) :
        /\ q * Len(sm_ids) >= grid_width * grid_height
        /\ (q - 1) * Len(sm_ids) < grid_width * grid_height
RefChannel(x, y) == RefPanelId(x, y) \div RefPanelsPerChannel
RefOffset(x, y) ==
    (RefPanelId(x, y) % RefPanelsPerChannel) * (panel_width * panel_height)
        + RefRow(x, y) * panel_width + RefCol(x, y)

\* C23: for every geometry, origin and zigzag setting and every canvas
\* pixel (x, y), the entry of the map tables for (x, y) is the channel and
\* the offset of the reference formula.
C23_MapEntryEqualsReference ==
    call[1] = "map" =>
        \A i \in DOMAIN pix_map_idx :
            /\ pix_map_sm[i] = RefChannel(i % fb_width, i \div fb_width)
            /\ pix_map_idx[i] = RefOffset(i % fb_width, i \div fb_width)

\* C24: for every geometry the constructor accepts, the 16-bit offset table
\* and the 8-bit channel table hold, for each framebuffer index, the offset
\* and the channel the mapper computed, not their residues modulo 2^16 and
\* 2^8, so that no two framebuffer cells are flushed to one slot.
C24_TablesHoldTheMappedValues ==
    call[1] = "map" =>
        /\ \A i \in DOMAIN pix_map_idx :
                <<pix_map_sm[i], pix_map_idx[i]>>
                    = coord_to_index(i % fb_width, i \div fb_width)
        /\ \A i \in DOMAIN pix_map_idx, j \in DOMAIN pix_map_idx :
                i # j => <<pix_map_sm[i], pix_map_idx[i]>> # <<pix_map_sm[j], pix_map_idx[j]>>

----------------------------------------------------------------------------
(* Properties of the filled ellipse (SpecEllipse).                         *)

\* the ellipse of a finished draw_ellipse call c lies wholly on the canvas
EllipseOnCanvas(c) ==
    /\ c[4] >= 1 /\ c[5] >= 1
    /\ 0 <= c[2] - c[4] /\ c[2] + c[4] <= fb_width - 1
    /\ 0 <= c[3] - c[5] /\ c[3] + c[5] <= fb_height - 1

\* the cells the call c sets when its fill is left out
OutlineCells(c) ==
    DOMAIN Outcome(fb_width, fb_height,
                   draw_ellipse(fb_width, fb_height, c[2], c[3], c[4], c[5], c[6], None)).written

\* C25: for an unrotated draw_ellipse with a fill, the ellipse wholly on the
\* canvas, the fill never overwrites the outline: every pixel the same call
\* without fill sets to the packed outline holds the packed outline after
\* the filled call, and every pixel left at the packed fill lies strictly
\* between two outline pixels of its row.
C25_FillKeepsTheOutline ==
    [][(/\ call'[1] = "draw_ellipse"
        /\ call'[7] # None
        /\ EllipseOnCanvas(call'))
       => /\ pc' = "main"
          /\ \A i \in OutlineCells(call') : fb'[i] = packed_of(call'[6])
          /\ \A i \in Cells :
                fb'[i] = packed_of(call'[7]) =>
                    \E l \in OutlineCells(call'), r \in OutlineCells(call') :
                        /\ l \div fb_width = i \div fb_width
                        /\ r \div fb_width = i \div fb_width
                        /\ l < i /\ i < r]_vars

----------------------------------------------------------------------------
(* Properties of the line loop (SpecLine).                                 *)

\* max(|x1 - x0|, |y1 - y0|) of the running call c
LineSteps(c) == Max2(Abs(c[4] - c[2]), Abs(c[5] - c[3]))

\* C26: the general case of draw_line terminates for all end points, on or
\* off the canvas: the loop visits (x0, y0) first, every iteration stores
\* the packed color at the visited point if it lies on the canvas and
\* changes no other cell, the loop leaves at exactly (x1, y1) after
\* max(|x1 - x0|, |y1 - y0|) steps, and the dirty flag is set after it.
C26_LineLoopTerminatesAtTheEndPoint ==
    /\ (pc = "line_loop") ~> (pc = "main")
    /\ [][(pc = "main" /\ pc' = "line_loop") =>
            /\ call'[7] = call'[2] /\ call'[8] = call'[3]
            /\ call'[10] = 0
            /\ fb' = fb /\ fb_dirty' = fb_dirty]_vars
    /\ [][pc = "line_loop" =>
            /\ \A i \in Cells :
                IF /\ InBounds(fb_width, fb_height, call[7], call[8])
                   /\ i = call[8] * fb_width + call[7]
                THEN fb'[i] = packed_of(call[6])
                ELSE fb'[i] = fb[i]
            /\ IF pc' = "main"
               THEN /\ call[7] = call[4] /\ call[8] = call[5]
                    /\ call[10] = LineSteps(call)
                    /\ fb_dirty'
               ELSE /\ call[10] < LineSteps(call)
                    /\ call'[10] = call[10] + 1
                    /\ Max2(Abs(call'[7] - call[7]), Abs(call'[8] - call[8])) = 1
                    /\ fb_dirty' = fb_dirty]_vars

\* draw_line(-1, 0, 4, 2, 0xFF0000) on a 4x4 canvas has returned after 5
\* steps, its first and last points off the canvas
C26_Witness ==
    /\ pc = "main"
    /\ fb_width = 4 /\ fb_height = 4
    /\ Len(call) = 10
    /\ SubSeq(call, 1, 8) = <<"draw_line", 0 - 1, 0, 4, 2, Palette[1], 4, 2>>
    /\ call[10] = 5
    /\ fb_dirty
    /\ fb[0] = packed_of(Palette[1])

====
